---- MODULE Spec2Model ----
(***************************************************************************)
(* Model of the terminal multiplexer of sformichella/process-manager:      *)
(* viewProcessesInTabs and its stdin / child-stdout / child-exit handlers. *)
(* Every action is one event of Node's single-threaded event loop and      *)
(* runs all the listeners registered for that event, in registration       *)
(* order.                                                                  *)
(***************************************************************************)
EXTENDS Integers, Sequences, FiniteSets, TLC

(* ------------------------------ bounds -------------------------------- *)
\* the `retention` viewProcessesInTabs hands to trackHistory: 1000 in the
\* program, scaled down here
Retention == 3
\* state.lines, the viewport height: dimensions[1] = 20 in the program,
\* scaled down here (Retention stays at least Lines + 2, as 1000 and 20 are)
Lines == 1
\* most events of one run that append to a child history: stdout chunks and
\* Interrupts on a child tab, all children together
MaxAppends == 4

\* the commands handed to viewProcessesInTabs(...commands): one child process
\* and one tab each
Commands == <<"command 1", "command 2">>
NumProcs == Len(Commands)
Procs == 0 .. (NumProcs - 1)
Tabs == 0 .. NumProcs
\* payload of the n-th stdout chunk of the run: the handlers never look into
\* a chunk, so the chunks are told apart by their number
Chunk(n) == "chunk " \o ToString(n) \o "\n"

(* ------------------------------ utils.ts ------------------------------ *)
\* utils.ts keys: the byte strings the handlers compare with Buffer.equals
keys == [SIGINT |-> <<3>>, left |-> <<27, 91, 68>>,
         right |-> <<27, 91, 67>>, k |-> <<107>>]

Max(a, b) == IF a > b THEN a ELSE b
Min(a, b) == IF a < b THEN a ELSE b

\* JavaScript's a & b on non-negative integers
RECURSIVE BitAnd(_, _)
BitAnd(a, b) ==
  IF a = 0 \/ b = 0 THEN 0
  ELSE 2 * BitAnd(a \div 2, b \div 2) + (IF a % 2 = 1 /\ b % 2 = 1 THEN 1 ELSE 0)

\* data.toString('utf-8') as the sequence of UTF-16 code units, for chunks
\* whose bytes are all below 0xE0: one- and two-byte sequences decode, a
\* byte that starts no valid sequence becomes U+FFFD
RECURSIVE toStringUtf8(_)
toStringUtf8(data) ==
  IF data = <<>> THEN <<>>
  ELSE LET b == Head(data)
           rest == Tail(data)
       IN IF b < 128 THEN <<b>> \o toStringUtf8(rest)
          ELSE IF b >= 194 /\ b <= 223 /\ rest # <<>>
                  /\ Head(rest) >= 128 /\ Head(rest) <= 191
               THEN <<(b - 192) * 64 + (Head(rest) - 128)>> \o toStringUtf8(Tail(rest))
               ELSE <<65533>> \o toStringUtf8(rest)

\* event.charCodeAt(n): NaN past the end, and NaN & x is 0, so NaN is 0 here
charCodeAt(event, n) == IF n + 1 <= Len(event) THEN event[n + 1] ELSE 0

\* the return value null of isScrollEvent
null == 0

\* isScrollEvent(data): null, -1 or 1
isScrollEvent(data) ==
  LET event == toStringUtf8(data)
  IN IF ~(Len(event) >= 3 /\ SubSeq(event, 1, 3) = <<27, 91, 77>>) THEN null
     ELSE IF BitAnd(charCodeAt(event, 3), 96) # 96 THEN null
     ELSE IF BitAnd(charCodeAt(event, 3), 1) # 0 THEN -1 ELSE 1

(* ------------------------------- state -------------------------------- *)
VARIABLES
  tab,              \* state.tab
  cursor,           \* state.cursor
  histories,        \* state.histories: histories[1] is main, histories[i + 2] child i
  status,           \* per child process: "running", "exited", "failed" (could not be
                    \* spawned) or "unspawned" (the ChildProcess handle)
  exitListeners,    \* per child process: number of 'exit' listeners terminateHandler added
  restartListeners, \* number of restartHandler listeners added to stdin
  session,          \* "active" until the program ends, then "exited"
  exitCode,         \* the program's exit code, -1 while it runs and when a signal ended it
  rawMode,          \* the terminal of process.stdin is in raw mode
  mouseEvents,      \* mouse reporting enabled on the terminal
  screen,           \* what the last render wrote after console.clear()
  emitted,          \* number of stdout chunks the children have emitted so far
  event,            \* the event the event loop dispatched last
  prevTab,          \* state.tab when that event arrived
  effects           \* the renders, signals and process calls of that event, in order

vars == <<tab, cursor, histories, status, exitListeners, restartListeners, session,
          exitCode, rawMode, mouseEvents, screen, emitted, event, prevTab,
          effects>>

\* histories[tab] of the source (0-based) in the 1-based sequence
hist(hs, t) == hs[t + 1]

\* the effects a handler can have outside the state object
Effect(op, pid, sig, delivered) ==
  [op |-> op, pid |-> pid, sig |-> sig, delivered |-> delivered]
RenderEffect == Effect("render", -1, "", FALSE)
BeforeExitEffect == Effect("beforeExit", -1, "", FALSE)
ExitEffect(code) == Effect("exit", code, "", FALSE)
UncaughtEffect == Effect("uncaught", -1, "", FALSE)

\* the part of the world the handlers read and write
World == [tab |-> tab, cursor |-> cursor, histories |-> histories, status |-> status,
          exitListeners |-> exitListeners, restartListeners |-> restartListeners,
          session |-> session, exitCode |-> exitCode, rawMode |-> rawMode,
          mouseEvents |-> mouseEvents, screen |-> screen, effects |-> <<>>,
          denied |-> {}]

(* ------------------------------- render ------------------------------- *)
tabLabel(index, t) ==
  LET selected == IF index = t THEN "[*]" ELSE "[ ]"
  IN IF index = 0 THEN "main " \o selected \o " "
     ELSE " process " \o ToString(index) \o " " \o selected \o " "

\* render(state): clears the screen and writes the header and the visible slice
render(w) ==
  LET current == hist(w.histories, w.tab)
      endLineIndex == Min(w.cursor + Lines, Len(current))
      view == [tabs |-> [index \in 1 .. Len(w.histories) |-> tabLabel(index - 1, w.tab)],
               lines |-> SubSeq(current, w.cursor + 1, endLineIndex)]
  IN [w EXCEPT !.screen = view, !.effects = Append(@, RenderEffect)]

(* ------------------------------ messages ------------------------------ *)
InitializedMsg == "Initialized!\n"
NewLine == "\n"
ReceivedSigint == "Received SIGINT\n"
ExitedMsg(t) == "Process '" \o ToString(t) \o "' exited\n"
RestartMsg(t) == "Press 'K' to restart process '" \o ToString(t) \o "'\n"

\* mutant: the main history is cut to the retention like a child history
print_retained(w, data) ==
  LET pushed == Append(w.histories[1], data)
      kept == IF Len(pushed) > Retention
              THEN SubSeq(pushed, Len(pushed) - Retention + 1, Len(pushed))
              ELSE pushed
  IN render([w EXCEPT !.histories[1] = kept])

\* main.print(data) of trackMainHistory
print(w, data) ==
  render([w EXCEPT !.histories[1] = Append(@, data)])

(* ---------------------------- trackHistory ---------------------------- *)
\* history.splice(0, n): the history without its first n entries
splice0(history, n) == SubSeq(history, n + 1, Len(history))

\* mutant: the eviction cuts the newest entries instead of the oldest
trackHistoryOnData_keepsOldest(history, data, retention) ==
  LET pushed == Append(history, data)
  IN IF Len(pushed) > retention THEN SubSeq(pushed, 1, retention) ELSE pushed

\* the stdout 'data' listener of trackHistory: push, then evict from the front
trackHistoryOnData(history, data, retention) ==
  LET pushed == Append(history, data)
  IN IF Len(pushed) > retention THEN splice0(pushed, Len(pushed) - retention)
     ELSE pushed

(* --------------------------- updateActiveTab -------------------------- *)
\* mutant: follows only when the cursor is already at the new tail
updateActiveTabOnData_strict(w, i) ==
  IF i + 1 = w.tab
  THEN LET maxCursor == Max(0, Len(hist(w.histories, i + 1)) - Lines)
       IN IF w.cursor > maxCursor - 1
          THEN render([w EXCEPT !.cursor = maxCursor])
          ELSE w
  ELSE w

\* the stdout 'data' listener updateActiveTab adds to process i; it runs after
\* the listener of trackHistory, which was added first
updateActiveTabOnData(w, i) ==
  IF i + 1 = w.tab
  THEN LET maxCursor == Max(0, Len(hist(w.histories, i + 1)) - Lines)
       IN IF w.cursor > maxCursor - 2
          THEN render([w EXCEPT !.cursor = maxCursor])
          ELSE w
  ELSE w

(* ------------------------- uncaught exceptions ------------------------ *)
\* an exception nothing catches, such as the 'error' event of a child handle,
\* to which no listener is ever added: the program ends at once with exit
\* code 1. beforeExit is not emitted; the runtime puts the terminal back into
\* normal mode on its way out
uncaughtException(w) ==
  [w EXCEPT !.session = "exited", !.exitCode = 1, !.rawMode = FALSE,
            !.effects = Append(@, UncaughtEffect)]

(* --------------------------- terminateHandler ------------------------- *)
\* p.kill(sig) on the handle of child i. A handle whose process has exited
\* accepts the call and delivers nothing. When the system refuses to send
\* the signal to a running child (w.denied), the handle emits 'error', which
\* is thrown out of the call
kill(w, i, sig) ==
  IF w.status[i] = "running" /\ i \in w.denied
  THEN uncaughtException([w EXCEPT !.effects = Append(@, Effect("kill", i, sig, FALSE))])
  ELSE [w EXCEPT !.effects = Append(@, Effect("kill", i, sig, w.status[i] = "running"))]

\* processes.forEach(p => p.kill()), from child n on; a call that throws ends
\* the loop
RECURSIVE killFrom(_, _)
killFrom(w, n) ==
  IF n >= NumProcs \/ w.session = "exited" THEN w
  ELSE killFrom(kill(w, n, "SIGTERM"), n + 1)

killAll(w) == killFrom(w, 0)

\* process.emit('beforeExit', exitCode): runs the listener of line 29,
\* disableMouseEvents
emitBeforeExit(w) ==
  [w EXCEPT !.mouseEvents = FALSE, !.effects = Append(@, BeforeExitEffect)]

\* process.exit(code): the program ends inside this call; on its way out the
\* runtime puts the terminal that setRawMode(true) of line 25 made raw back
\* into normal mode
processExit(w, code) ==
  [w EXCEPT !.session = "exited", !.exitCode = code, !.rawMode = FALSE,
            !.effects = Append(@, ExitEffect(code))]

\* terminateHandler, branch tab === 0; process.exitCode is never set, so
\* `process.exitCode || 0` is 0. process.exit is not reached when a kill call
\* has thrown
terminateMain(w) ==
  LET code == 0
      signalled == killAll(emitBeforeExit(w))
  IN IF signalled.session = "exited" THEN signalled ELSE processExit(signalled, code)

\* mutant: the listener reads state.tab when it runs instead of the tab it
\* captured
exitListener_activeTab(w, t) ==
  LET printed == print(w, ExitedMsg(w.tab))
      pushed == [printed EXCEPT !.histories[w.tab + 1] = @ \o <<NewLine, RestartMsg(w.tab)>>,
                                !.restartListeners = @ + 1]
  IN render(pushed)

\* the 'exit' listener terminateHandler adds to a child, with the `tab` and
\* `currentHistory` it captured when it was added
exitListener(w, t) ==
  LET printed == print(w, ExitedMsg(t))
      pushed == [printed EXCEPT !.histories[t + 1] = @ \o <<NewLine, RestartMsg(t)>>,
                                !.restartListeners = @ + 1]
  IN IF pushed.tab = t THEN render(pushed) ELSE pushed

\* mutant: signals processes[tab] (wrapping) instead of processes[tab - 1]
terminateChild_wrongChild(w) ==
  LET t == w.tab
      listening == [w EXCEPT !.exitListeners[t - 1] = @ + 1]
      pushed == [listening EXCEPT !.histories[t + 1] = @ \o <<NewLine, ReceivedSigint>>]
  IN kill(render(pushed), t % NumProcs, "SIGINT")

\* terminateHandler, branch tab > 0
terminateChild(w) ==
  LET t == w.tab
      listening == [w EXCEPT !.exitListeners[t - 1] = @ + 1]
      pushed == [listening EXCEPT !.histories[t + 1] = @ \o <<NewLine, ReceivedSigint>>]
  IN kill(render(pushed), t - 1, "SIGINT")

terminateHandler(data, w) ==
  IF data = keys.SIGINT
  THEN IF w.tab = 0 THEN terminateMain(w) ELSE terminateChild(w)
  ELSE w

\* mutant: 'k' starts the exited children afresh, with empty histories
restartHandler_respawns(data, w) ==
  IF data = keys.k
  THEN [w EXCEPT !.histories =
          [t \in 1 .. Len(w.histories) |->
             IF t >= 2 /\ w.status[t - 2] = "exited" THEN <<>> ELSE w.histories[t]]]
  ELSE w

\* restartHandler: compares the chunk with keys.k and does nothing
restartHandler(data, w) == IF data = keys.k THEN w ELSE w

(* ----------------------------- arrowHandler --------------------------- *)
\* mutant: Left stops at the first tab instead of wrapping to the last
arrowLeft_noWrap(w) ==
  LET current == hist(w.histories, w.tab)
      maxCursor == Max(0, Len(current) - Lines)
  IN [w EXCEPT !.tab = Max(0, w.tab - 1), !.cursor = maxCursor]

\* branch data.equals(keys.left): the cursor is computed from histories[tab]
\* with the `tab` destructured before state.tab was assigned
arrowLeft(w) ==
  LET n == Len(w.histories)
      current == hist(w.histories, w.tab)
      maxCursor == Max(0, Len(current) - Lines)
  IN [w EXCEPT !.tab = (w.tab + n - 1) % n, !.cursor = maxCursor]

\* branch data.equals(keys.right): the cursor is computed from
\* state.histories[state.tab] after state.tab was assigned
arrowRight(w) ==
  LET n == Len(w.histories)
      newTab == (w.tab + 1) % n
      current == hist(w.histories, newTab)
      maxCursor == Max(0, Len(current) - Lines)
  IN [w EXCEPT !.tab = newTab, !.cursor = maxCursor]

arrowHandler(data, w) ==
  LET afterLeft == IF data = keys.left THEN arrowLeft(w) ELSE w
      afterRight == IF data = keys.right THEN arrowRight(afterLeft) ELSE afterLeft
  IN render(afterRight)

(* ---------------------------- scrollHandler --------------------------- *)
scrollHandler(data, w) ==
  LET direction == isScrollEvent(data)
      current == hist(w.histories, w.tab)
      up == IF direction = -1 THEN [w EXCEPT !.cursor = Max(0, w.cursor - 1)] ELSE w
      maxCursor == Max(0, Len(current) - Lines)
      down == IF direction = 1
              THEN [up EXCEPT !.cursor = Min(maxCursor, w.cursor + 1)] ELSE up
  IN IF direction # null
     THEN (IF down.cursor # w.cursor THEN render(down) ELSE down)
     ELSE w

(* ------------------------------ dispatch ------------------------------ *)
\* the restartHandler listeners the exit listeners added to stdin
RECURSIVE restartHandlers(_, _, _)
restartHandlers(data, w, n) ==
  IF n = 0 THEN w ELSE restartHandlers(data, restartHandler(data, w), n - 1)

\* process.stdin 'data': the listeners of lines 43-45 in order, then the
\* restartHandler listeners; process.exit and an uncaught exception end the
\* program at once, so the listeners after terminateHandler do not run once
\* it has ended the session
stdinData(data, w) ==
  LET terminated == terminateHandler(data, w)
  IN IF terminated.session = "exited" THEN terminated
     ELSE restartHandlers(data, scrollHandler(data, arrowHandler(data, terminated)),
                          terminated.restartListeners)

\* the stdout 'data' listeners of child i: trackHistory, then updateActiveTab
stdoutData(i, data, w) ==
  updateActiveTabOnData(
    [w EXCEPT !.histories[i + 2] = trackHistoryOnData(@, data, Retention)], i)

\* mutant: only one listener runs, as if each Interrupt replaced the last one
RECURSIVE exitListeners_runOnce(_, _, _)
exitListeners_runOnce(w, i, n) ==
  IF n = 0 THEN w ELSE exitListener(w, i + 1)

\* the n 'exit' listeners of child i, in the order they were added
RECURSIVE exitListeners_run(_, _, _)
exitListeners_run(w, i, n) ==
  IF n = 0 THEN w ELSE exitListeners_run(exitListener(w, i + 1), i, n - 1)

(* ------------------------------- events ------------------------------- *)
Event(kind, data, pid, chunk) ==
  [kind |-> kind, data |-> data, pid |-> pid, chunk |-> chunk]

\* terminal input chunks: the four keys, the wheel reports (button bytes 0x60
\* and 0x61), a button press (0x20), a report whose button byte 0x80 is no
\* valid UTF-8, a report cut after its prefix, and 'q'
wheel96 == <<27, 91, 77, 96, 33, 33>>
wheel97 == <<27, 91, 77, 97, 33, 33>>
press32 == <<27, 91, 77, 32, 33, 33>>
report128 == <<27, 91, 77, 128, 33, 33>>
cutReport == <<27, 91, 77>>
Inputs == {keys.SIGINT, keys.left, keys.right, keys.k,
           wheel96, wheel97, press32, report128, cutReport, <<113>>}

\* the handlers' writes go back to the state
Commit(w) ==
  /\ tab' = w.tab
  /\ cursor' = w.cursor
  /\ histories' = w.histories
  /\ exitListeners' = w.exitListeners
  /\ restartListeners' = w.restartListeners
  /\ session' = w.session
  /\ exitCode' = w.exitCode
  /\ rawMode' = w.rawMode
  /\ mouseEvents' = w.mouseEvents
  /\ screen' = w.screen
  /\ effects' = w.effects

\* the state when viewProcessesInTabs(commands) returns, for n commands:
\* setRawMode(true), enableMouseEvents, one empty history per tab, then
\* main.print('Initialized!\n') renders and render(state) renders again
viewProcessesInTabs(n) ==
  render(print([tab |-> 0, cursor |-> 0,
                histories |-> [t \in 1 .. n + 1 |-> <<>>],
                status |-> [i \in 0 .. n - 1 |-> "running"],
                exitListeners |-> [i \in 0 .. n - 1 |-> 0], restartListeners |-> 0,
                session |-> "active", exitCode |-> -1, rawMode |-> TRUE,
                mouseEvents |-> TRUE,
                screen |-> [tabs |-> <<>>, lines |-> <<>>], effects |-> <<>>],
               InitializedMsg))

InitWorld == viewProcessesInTabs(NumProcs)

\* the variables of a session that has just started in world w
Start(w) ==
  /\ tab = w.tab
  /\ cursor = w.cursor
  /\ histories = w.histories
  /\ status = w.status
  /\ exitListeners = w.exitListeners
  /\ restartListeners = w.restartListeners
  /\ session = w.session
  /\ exitCode = w.exitCode
  /\ rawMode = w.rawMode
  /\ mouseEvents = w.mouseEvents
  /\ screen = w.screen
  /\ emitted = 0
  /\ event = Event("init", <<>>, -1, "")
  /\ prevTab = 0
  /\ effects = w.effects

\* spawn throws for command j (line 38) while viewProcessesInTabs runs: the
\* terminal is raw and mouse reporting is on by then, the commands before j
\* have been spawned, state.histories is still the empty array of
\* initialState and nothing has been drawn. Nothing catches the exception
SpawnThrows(j) ==
  LET w == uncaughtException(
             [tab |-> 0, cursor |-> 0, histories |-> <<>>,
              status |-> [i \in Procs |-> IF i < j THEN "running"
                                          ELSE IF i = j THEN "failed"
                                          ELSE "unspawned"],
              exitListeners |-> [i \in Procs |-> 0], restartListeners |-> 0,
              session |-> "active", exitCode |-> -1, rawMode |-> TRUE,
              mouseEvents |-> TRUE,
              screen |-> [tabs |-> <<>>, lines |-> <<>>], effects |-> <<>>])
  IN /\ tab = w.tab
     /\ cursor = w.cursor
     /\ histories = w.histories
     /\ status = w.status
     /\ exitListeners = w.exitListeners
     /\ restartListeners = w.restartListeners
     /\ session = w.session
     /\ exitCode = w.exitCode
     /\ rawMode = w.rawMode
     /\ mouseEvents = w.mouseEvents
     /\ screen = w.screen
     /\ emitted = 0
     /\ event = Event("error", <<>>, j, "")
     /\ prevTab = 0
     /\ effects = w.effects

Init ==
  \/ Start(InitWorld)
  \/ \E j \in Procs : SpawnThrows(j)

\* the appending events so far: every Interrupt on a child tab added one
\* 'exit' listener
RECURSIVE sumTo(_, _)
sumTo(f, n) == IF n < 0 THEN 0 ELSE f[n] + sumTo(f, n - 1)
appends == emitted + sumTo(exitListeners, Len(histories) - 2)

\* the sets of children to which the system may refuse to send a signal
\* while one chunk is handled: only an Interrupt makes a kill call
Denials(data) == IF data = keys.SIGINT THEN SUBSET Procs ELSE {{}}

\* one chunk arrives on process.stdin
Stdin(data) ==
  /\ session = "active"
  /\ (data = keys.SIGINT /\ tab > 0) => appends < MaxAppends
  /\ \E denied \in Denials(data) :
       Commit(stdinData(data, [World EXCEPT !.denied = denied]))
  /\ event' = Event("stdin", data, -1, "")
  /\ prevTab' = tab
  /\ UNCHANGED <<status, emitted>>

\* child i writes one chunk to its stdout
Stdout(i) ==
  /\ session = "active"
  /\ appends < MaxAppends
  /\ Commit(stdoutData(i, Chunk(emitted + 1), World))
  /\ emitted' = emitted + 1
  /\ event' = Event("stdout", <<>>, i, Chunk(emitted + 1))
  /\ prevTab' = tab
  /\ UNCHANGED status

\* child i exits: its 'exit' event runs the listeners added so far
ChildExit(i) ==
  /\ session = "active"
  /\ status[i] = "running"
  /\ status' = [status EXCEPT ![i] = "exited"]
  /\ Commit(exitListeners_run([World EXCEPT !.status[i] = "exited"], i, exitListeners[i]))
  /\ event' = Event("exit", <<>>, i, "")
  /\ prevTab' = tab
  /\ UNCHANGED emitted

\* the command of child i could not be started (spawn returned a handle):
\* on the first tick after viewProcessesInTabs returns, before any other
\* event is dispatched, the handle emits 'error', which has no listener and
\* is thrown. No handler runs: beforeExit is not emitted and no child is
\* signalled. (spawn throwing at once is SpawnThrows; the 'error' of a
\* refused signal is thrown inside kill.)
ChildError(i) ==
  /\ session = "active"
  /\ event.kind = "init"
  /\ status[i] = "running"
  /\ status' = [status EXCEPT ![i] = "failed"]
  /\ Commit(uncaughtException(World))
  /\ event' = Event("error", <<>>, i, "")
  /\ prevTab' = tab
  /\ UNCHANGED emitted

\* the signals that end the manager from outside: the program installs no
\* signal listener
Signals == {"SIGTERM", "SIGKILL"}

\* the manager receives a signal from outside: it ends without running any
\* handler. On SIGTERM the runtime puts the terminal back into normal mode
\* before it dies; SIGKILL gives it no chance to, and the terminal stays raw
Signal(sig) ==
  /\ session = "active"
  /\ session' = "exited"
  /\ rawMode' = IF sig = "SIGKILL" THEN rawMode ELSE FALSE
  /\ effects' = <<>>
  /\ event' = Event("signal", <<>>, -1, sig)
  /\ prevTab' = tab
  /\ UNCHANGED <<tab, cursor, histories, status, exitListeners, restartListeners,
                 exitCode, mouseEvents, screen, emitted>>

Next ==
  \/ \E data \in Inputs : Stdin(data)
  \/ \E i \in Procs : Stdout(i)
  \/ \E i \in Procs : ChildExit(i)
  \/ \E i \in Procs : ChildError(i)
  \/ \E sig \in Signals : Signal(sig)

Spec == Init /\ [][Next]_vars

(* ----------------------------- navigation ----------------------------- *)
\* sessions of any number of commands, zero included, under the arrow keys
\* and the children's output: the tab count is the number of histories
MaxNavTabs == 3

InitNav == \E n \in 0 .. MaxNavTabs - 1 : Start(viewProcessesInTabs(n))

NextNav ==
  \/ Stdin(keys.left)
  \/ Stdin(keys.right)
  \/ \E i \in DOMAIN status : Stdout(i)

SpecNav == InitNav /\ [][NextNav]_vars

(* ------------------------------ helpers ------------------------------- *)
\* the largest cursor for a history: the tail
tail(history) == Max(0, Len(history) - Lines)
\* number of effects of the last event with the given op
RECURSIVE countOp(_, _)
countOp(es, op) ==
  IF es = <<>> THEN 0
  ELSE (IF Head(es).op = op THEN 1 ELSE 0) + countOp(Tail(es), op)
renders == countOp(effects, "render")

\* the kill calls among the effects, in order
kills(es) == SelectSeq(es, LAMBDA e : e.op = "kill")
\* the last n entries of a sequence (all of it when it is shorter)
LastN(s, n) == SubSeq(s, Len(s) - Min(n, Len(s)) + 1, Len(s))
\* the last event was this input chunk
IsStdin(e, data) == e.kind = "stdin" /\ e.data = data
\* the last event was a wheel report: ESC [ M and a button byte with both 0x60 bits
IsWheel(e) ==
  /\ e.kind = "stdin"
  /\ Len(e.data) >= 4
  /\ SubSeq(e.data, 1, 3) = <<27, 91, 77>>
  /\ (e.data[4] \div 32) % 4 = 3
Unchanged(hs1, hs2, except) ==
  \A t \in Tabs : t \notin except => hist(hs1, t) = hist(hs2, t)

(* ------------------------------- claims ------------------------------- *)

\* C1: in the state after any scroll or navigation event the cursor satisfies
\* 0 <= cursor <= max(0, len(history of the active tab) - viewportHeight).
\* Refuted: after NavigateLeft the cursor is the tail of the tab that was left.
C1_CursorWithinActiveHistory ==
  (event.kind = "stdin" /\ (event.data \in {keys.left, keys.right} \/ IsWheel(event)))
    => (0 <= cursor /\ cursor <= tail(hist(histories, tab)))

\* C2: after NavigateLeft / NavigateRight, activeTab has moved by -1 / +1 modulo
\* the tab count and cursor is the tail of the new active tab.
\* Refuted for NavigateLeft.
C2_NavigationJumpsToTailOfNewTab ==
  [][(IsStdin(event', keys.left) \/ IsStdin(event', keys.right))
       => /\ tab' = (IF event'.data = keys.left THEN tab + NumProcs ELSE tab + 1)
                    % (NumProcs + 1)
          /\ cursor' = tail(hist(histories', tab'))]_vars

\* C3: in every reachable state every child history has at most Retention
\* entries. Refuted: the notes terminateHandler pushes are not evicted.
C3_ChildHistoryWithinRetention ==
  \A t \in 1 .. Len(histories) - 1 : Len(hist(histories, t)) <= Retention

\* C4: a stdout chunk appended to a child history that would exceed the
\* retention leaves exactly the last Retention entries of (previous history
\* followed by the chunk): order kept, the chunk last.
C4_EvictionIsFifo ==
  [][(event'.kind = "stdout" /\ Len(hist(histories, event'.pid + 1)) + 1 > Retention)
       => hist(histories', event'.pid + 1)
            = LastN(Append(hist(histories, event'.pid + 1), event'.chunk), Retention)]_vars

\* C4 witness: the first Retention + 1 chunks all went to one child, whose
\* history has lost the first of them
C4_Witness ==
  /\ event.kind = "stdout"
  /\ emitted = Retention + 1
  /\ hist(histories, event.pid + 1) = [n \in 1 .. Retention |-> Chunk(n + 1)]

\* C5: Interrupt with activeTab = 0 sends every child one termination signal,
\* ends the session without running the remaining listeners of that chunk
\* (no render, state object untouched), and no event changes anything after.
\* Refuted: a kill call the system refuses throws the handle's unlistened
\* 'error' out of the loop, and the children after it get no signal.
C5_InterruptOnMainEndsSession ==
  [][/\ session = "exited" => UNCHANGED vars
     /\ (IsStdin(event', keys.SIGINT) /\ tab = 0)
          => /\ session' = "exited"
             /\ \A i \in Procs :
                  Len(SelectSeq(effects', LAMBDA e : e.op = "kill" /\ e.pid = i)) = 1
             /\ \A n \in 1 .. Len(kills(effects')) : kills(effects')[n].sig = "SIGTERM"
             /\ countOp(effects', "render") = 0
             /\ tab' = tab /\ cursor' = cursor /\ histories' = histories
             /\ status' = status /\ screen' = screen]_vars

\* C6: Interrupt with activeTab = t > 0 appends exactly the blank line and the
\* 'Received SIGINT' note to tab t's history, signals child t - 1 with SIGINT
\* and no other child, and changes no other history, activeTab or cursor.
C6_InterruptOnChildTab ==
  [][(IsStdin(event', keys.SIGINT) /\ tab > 0)
       => /\ hist(histories', tab) = hist(histories, tab) \o <<NewLine, ReceivedSigint>>
          /\ Unchanged(histories', histories, {tab})
          /\ tab' = tab /\ cursor' = cursor
          /\ Len(kills(effects')) = 1
          /\ kills(effects')[1].pid = tab - 1
          /\ kills(effects')[1].sig = "SIGINT"]_vars

\* C6 witness: an Interrupt was handled on the last child tab while its
\* history already held output
C6_Witness ==
  /\ IsStdin(event, keys.SIGINT)
  /\ tab = NumProcs
  /\ hist(histories, tab) = <<Chunk(1), NewLine, ReceivedSigint>>

\* C7: after a single Interrupt on child tab t, the child's exit appends the
\* exit notice to the main history and the restart prompt to tab t's history,
\* whichever tab is active by then; the process is exited; activeTab and
\* cursor stay as they were.
C7_ExitNoticeGoesToCapturedTab ==
  [][(event'.kind = "exit" /\ exitListeners[event'.pid] = 1)
       => LET t == event'.pid + 1
          IN /\ hist(histories', 0) = Append(hist(histories, 0), ExitedMsg(t))
             /\ hist(histories', t) = hist(histories, t) \o <<NewLine, RestartMsg(t)>>
             /\ Unchanged(histories', histories, {0, t})
             /\ status'[event'.pid] = "exited"
             /\ tab' = tab /\ cursor' = cursor]_vars

\* C7 witness: the exit of an interrupted child was handled while another
\* child's tab was active
C7_Witness ==
  /\ event.kind = "exit"
  /\ exitListeners[event.pid] = 1
  /\ tab # event.pid + 1 /\ tab # 0
  /\ status[event.pid] = "exited"

\* C8: the exit of a child that was never interrupted produces the same
\* changes as a supervised exit: the exit notice on the main tab and the
\* restart prompt on the child's tab. Refuted: no 'exit' listener exists
\* until terminateHandler adds one.
C8_UnsupervisedExitIsReported ==
  [][(event'.kind = "exit" /\ exitListeners[event'.pid] = 0)
       => LET t == event'.pid + 1
          IN /\ hist(histories', 0) = Append(hist(histories, 0), ExitedMsg(t))
             /\ hist(histories', t) = hist(histories, t) \o <<NewLine, RestartMsg(t)>>
             /\ status'[event'.pid] = "exited"]_vars

\* C9: a wheel report with bit 0x01 of the button byte set is ScrollDown
\* (cursor becomes min(tail, cursor + 1)), with the bit clear ScrollUp (cursor
\* becomes max(0, cursor - 1)). Refuted: isScrollEvent maps the set bit to -1.
C9_WheelBitOneScrollsDown ==
  [][IsWheel(event')
       => cursor' = (IF event'.data[4] % 2 = 1
                     THEN Min(tail(hist(histories, tab)), cursor + 1)
                     ELSE Max(0, cursor - 1))]_vars

\* C10 as stated: a chunk from the active child tab's process, arriving with
\* the cursor within 2 lines of that history's tail, ends with the chunk in
\* the history, the cursor at the new tail and a redraw. Refuted: the distance
\* is taken from the tail after the append.
C10_FollowsWithinTwoOfOldTail ==
  [][(event'.kind = "stdout" /\ event'.pid + 1 = tab
        /\ cursor > tail(hist(histories, tab)) - 2)
       => /\ hist(histories', tab)[Len(hist(histories', tab))] = event'.chunk
          /\ cursor' = tail(hist(histories', tab))
          /\ countOp(effects', "render") >= 1]_vars

\* C10 amended: a chunk from the active child tab's process, arriving with
\* cursor > newTail - 2, newTail being the tail once the chunk is appended and
\* the history evicted (every cursor at or past the old tail is such a
\* cursor), ends with the chunk last in the history, the cursor at newTail
\* and exactly one redraw.
C10_FollowsWithinTwoOfNewTail ==
  [][(event'.kind = "stdout" /\ event'.pid + 1 = tab)
       => /\ cursor >= tail(hist(histories, tab))
            => cursor > tail(hist(histories', tab)) - 2
          /\ cursor > tail(hist(histories', tab)) - 2
            => /\ hist(histories', tab)[Len(hist(histories', tab))] = event'.chunk
               /\ cursor' = tail(hist(histories', tab))
               /\ countOp(effects', "render") = 1]_vars

\* C10 witness: the active child's chunk moved the cursor forward to the new tail
C10_Witness ==
  /\ event.kind = "stdout"
  /\ event.pid + 1 = tab
  /\ cursor = tail(hist(histories, tab))
  /\ cursor > 0
  /\ renders = 1

\* C11: a chunk from a child whose tab is not active, or whose tab is active
\* with the cursor more than 2 lines before the tail, changes only that
\* child's history: activeTab, cursor and the other histories stay and nothing
\* is redrawn. Refuted: a history that the notes had grown past the retention
\* shrinks on the chunk, and the cursor is then within reach of the new tail.
C11_BackgroundOutputOnlyAppends ==
  [][(event'.kind = "stdout"
        /\ (event'.pid + 1 # tab \/ cursor < tail(hist(histories, tab)) - 2))
       => /\ Unchanged(histories', histories, {event'.pid + 1})
          /\ tab' = tab /\ cursor' = cursor
          /\ countOp(effects', "render") = 0]_vars

\* C12: every triggering event (input chunk, output chunk, exit notification)
\* causes at most one redraw, all its handlers counted. Refuted: an
\* Interrupt on a child tab is drawn by terminateHandler and by arrowHandler.
C12_AtMostOneRedrawPerEvent ==
  event.kind # "init" => renders <= 1

\* C13: a scroll event that leaves the cursor where it was (ScrollUp at 0,
\* ScrollDown at the tail) causes no redraw for that chunk. Refuted:
\* arrowHandler draws on every chunk.
C13_IdleScrollDoesNotRedraw ==
  [][(IsWheel(event') /\ cursor' = cursor) => countOp(effects', "render") = 0]_vars

\* C14: on every path by which the session ends, the raw input mode switched
\* on at session start is restored to normal mode, exactly once: the terminal
\* is raw for as long as the session is active and normal once it has ended,
\* and the mode changes in no step but the one that ends the session, from
\* raw to normal. Refuted: the program never switches raw mode off itself,
\* and a session ended by SIGKILL leaves the terminal raw.
C14_RawModeRestoredOnceAtExit ==
  /\ [](rawMode <=> session = "active")
  /\ [][rawMode' # rawMode =>
          (rawMode /\ ~rawMode' /\ session = "active" /\ session' = "exited")]_vars

\* C15: from any starting tab and any tab count, a session with no child
\* process included, NavigateLeft then NavigateRight, and NavigateRight then
\* NavigateLeft, bring activeTab back to where it was.
C15_LeftRightRoundTrip ==
  [][/\ (IsStdin(event, keys.left) /\ IsStdin(event', keys.right)) => tab' = prevTab
     /\ (IsStdin(event, keys.right) /\ IsStdin(event', keys.left)) => tab' = prevTab]_vars

\* C15 witness: Left wrapped from the first tab to the last of a session with
\* children, and one step later the round trip is judged
C15_Witness ==
  /\ IsStdin(event, keys.left)
  /\ prevTab = 0
  /\ tab = Len(histories) - 1
  /\ tab > 0

\* C15 witness of the session without children: Left was handled on its one tab
C15_WitnessNoChild ==
  /\ IsStdin(event, keys.left)
  /\ Len(histories) = 1

\* C16: the main history is append-only and never evicted: across every
\* event each entry stays at its index, so the length never decreases and
\* the retention does not cap it.
C16_MainHistoryAppendOnly ==
  [][/\ Len(hist(histories', 0)) >= Len(hist(histories, 0))
     /\ SubSeq(hist(histories', 0), 1, Len(hist(histories, 0))) = hist(histories, 0)]_vars

\* C16 witness: an exit notice has made the main history longer than the
\* retention, with its first entry still in place
C16_Witness ==
  /\ event.kind = "exit"
  /\ Len(hist(histories, 0)) > Retention
  /\ hist(histories, 0)[1] = InitializedMsg

\* C17: an Unrecognized chunk (not 0x03, ESC [ D, ESC [ C, 'k', nor a mouse
\* report whose button byte has both 0x60 bits set) is dropped: activeTab,
\* cursor, histories and process statuses stay and no signal is sent.
\* Refuted: a button byte that is no valid UTF-8 decodes to U+FFFD, whose code
\* has both bits, and the chunk scrolls.
C17_UnrecognizedInputIsDropped ==
  [][(/\ event'.kind = "stdin"
      /\ event'.data \notin {keys.SIGINT, keys.left, keys.right, keys.k}
      /\ ~IsWheel(event'))
       => /\ tab' = tab /\ cursor' = cursor
          /\ histories' = histories /\ status' = status
          /\ kills(effects') = <<>>]_vars

\* n copies of a sequence, one after the other
RECURSIVE Repeat(_, _)
Repeat(s, n) == IF n = 0 THEN <<>> ELSE s \o Repeat(s, n - 1)

\* C18: on Interrupt with activeTab = 0 the handler first delivers the
\* pre-exit notification (mouse reporting off), exactly once, then sends every
\* child the termination signal, then exits with exit code 0.
\* Refuted: a kill call the system refuses throws after the pre-exit
\* notification; the later children are not signalled, process.exit is not
\* reached and the exit code is 1.
C18_TeardownOrder ==
  [][(IsStdin(event', keys.SIGINT) /\ tab = 0)
       => /\ Len(effects') = NumProcs + 2
          /\ effects'[1] = BeforeExitEffect
          /\ \A i \in Procs : /\ effects'[i + 2].op = "kill"
                              /\ effects'[i + 2].pid = i
                              /\ effects'[i + 2].sig = "SIGTERM"
          /\ effects'[NumProcs + 2] = ExitEffect(0)
          /\ countOp(effects', "beforeExit") = 1
          /\ mouseEvents' = FALSE
          /\ exitCode' = 0]_vars

\* C19: the exit of a child that was interrupted k times while running
\* appends exactly k exit notices to the main history and k blank-line /
\* restart-prompt pairs to its own history; an Interrupt on the tab of a child
\* that has exited appends the two 'Received SIGINT' entries, and no exit
\* notice follows it.
C19_ExitListenersAccumulate ==
  [][/\ event'.kind = "exit"
          => LET t == event'.pid + 1
                 n == exitListeners[event'.pid]
             IN /\ hist(histories', 0) = hist(histories, 0) \o Repeat(<<ExitedMsg(t)>>, n)
                /\ hist(histories', t)
                     = hist(histories, t) \o Repeat(<<NewLine, RestartMsg(t)>>, n)
     /\ (IsStdin(event', keys.SIGINT) /\ tab > 0 /\ status[tab - 1] = "exited")
          => /\ hist(histories', tab) = hist(histories, tab) \o <<NewLine, ReceivedSigint>>
             /\ hist(histories', 0) = hist(histories, 0)
     /\ \A i \in Procs : status[i] = "exited"
          => /\ status'[i] = "exited"
             /\ Len(SelectSeq(hist(histories', 0), LAMBDA e : e = ExitedMsg(i + 1)))
                  = Len(SelectSeq(hist(histories, 0), LAMBDA e : e = ExitedMsg(i + 1)))]_vars

\* C19 witness: a child interrupted twice has exited and left two notices
C19_Witness ==
  /\ event.kind = "exit"
  /\ exitListeners[event.pid] = 2
  /\ Len(SelectSeq(hist(histories, 0), LAMBDA e : e = ExitedMsg(event.pid + 1))) = 2

\* C20: a RestartKey chunk, received in any state, leaves activeTab, cursor,
\* every history and every process status as they were, so an exited process
\* stays exited in every later state.
C20_RestartKeyDoesNothing ==
  [][/\ IsStdin(event', keys.k)
          => /\ tab' = tab /\ cursor' = cursor
             /\ histories' = histories /\ status' = status
             /\ kills(effects') = <<>>
     /\ \A i \in Procs : status[i] = "exited" => status'[i] = "exited"]_vars

\* C20 witness: 'k' was pressed on the tab of an exited child that shows the
\* restart prompt
C20_Witness ==
  /\ IsStdin(event, keys.k)
  /\ tab > 0
  /\ status[tab - 1] = "exited"
  /\ restartListeners > 0
  /\ hist(histories, tab)[Len(hist(histories, tab))] = RestartMsg(tab)

====
